---- MODULE Spec2Model ----
(***************************************************************************)
(* Model of cli/command_content_verify.go (content verification) and of    *)
(* the guarded repository action of cli/app.go (maybeRepositoryAction,     *)
(* maybeRunMaintenance) of kopia.                                          *)
(***************************************************************************)
EXTENDS Integers, Sequences, FiniteSets, TLC

(* ---------------------------- bounds ----------------------------------- *)
\* largest number of content records in the index
MaxRecords == 3
\* largest value of the --parallel flag that is explored
MaxParallel == 2

(* ---------------------------- errors ----------------------------------- *)
\* A Go error is the chain of its messages, outermost first; nil is empty.
Nil == <<>>

\* errors.New / errors.Errorf without arguments
NewError(m) == <<[msg |-> m, arg |-> 0]>>

\* errors.Errorf("... %v ...", n)
Errorf(m, n) == <<[msg |-> m, arg |-> n]>>

\* errors.Wrap(err, m): nil stays nil, otherwise m is put in front of the chain
Wrap(e, m) == IF e = Nil THEN Nil ELSE <<[msg |-> m, arg |-> 0]>> \o e

\* errors.As(err, &maintenance.NotOwnedError{}): some link of the chain is it
IsNotOwnedError(e) == \E i \in DOMAIN e : e[i].msg = "NotOwnedError"

\* errors.Cause(err): the innermost link of the chain
Cause(e) == IF e = Nil THEN Nil ELSE <<e[Len(e)]>>

(* ----------------------- fixed-width integers -------------------------- *)
\* A uint32 is kept as two 16-bit limbs [hi, lo]; an int64 (>= 0) as
\* [top, hi, lo] with top the bits above bit 31.
Limb == 256 * 256

U32(h, l) == [hi |-> h, lo |-> l]

\* uint32 + uint32 as Go computes it: modulo 2^32
AddU32(a, b) ==
    LET l == a.lo + b.lo
        h == a.hi + b.hi + (l \div Limb)
    IN  [hi |-> h % Limb, lo |-> l % Limb]

\* int64(x) of a uint32 x
Int64OfU32(a) == [top |-> 0, hi |-> a.hi, lo |-> a.lo]

\* variant of Int64Greater: >= in place of >
Int64GreaterOrEqual(x, y) ==
    \/ x.top > y.top
    \/ x.top = y.top /\ x.hi > y.hi
    \/ x.top = y.top /\ x.hi = y.hi /\ x.lo >= y.lo

\* x > y on int64 values
Int64Greater(x, y) ==
    \/ x.top > y.top
    \/ x.top = y.top /\ x.hi > y.hi
    \/ x.top = y.top /\ x.hi = y.hi /\ x.lo > y.lo

\* the mathematical sum of two uint32 values (no wrap-around)
TrueSum(a, b) ==
    LET l == a.lo + b.lo
        h == a.hi + b.hi + (l \div Limb)
    IN  [top |-> h \div Limb, hi |-> h % Limb, lo |-> l % Limb]

Int64(n) == [top |-> 0, hi |-> n \div Limb, lo |-> n % Limb]

(* -------------------------- repository data ---------------------------- *)
MaxU32 == U32(Limb - 1, Limb - 1)

\* content.Info values that the index may hold; readable tells whether
\* GetContent of the content succeeds.
Info(id, b, off, len, rd) ==
    [contentID |-> id, packBlobID |-> b, packOffset |-> off,
     packedLength |-> len, readable |-> rd]

CandidateContents ==
    { Info("C1", "B1", U32(0, 0),   U32(0, 500), TRUE),
      Info("C2", "B1", U32(0, 600), U32(0, 500), TRUE),
      Info("C3", "B2", U32(0, 0),   U32(0, 10),  TRUE),
      Info("C4", "B1", U32(0, 500), U32(0, 500), TRUE),
      Info("C5", "B1", MaxU32,      U32(0, 2),   TRUE),
      Info("C6", "B1", U32(0, 0),   U32(0, 10),  FALSE) }

\* blob stores: blob.ID -> blob.Metadata.Length
EmptyBlobs == [b \in {} |-> Int64(0)]

BlobStores ==
    { EmptyBlobs,
      [b \in {"B1"} |-> Int64(1000)],
      [b \in {"B1", "B2"} |-> IF b = "B1" THEN Int64(1000) ELSE Int64(10)] }

\* the blob store of the full-mode runs
FullBlobStore ==
    [b \in {"B1", "B2"} |-> IF b = "B1" THEN Int64(1000) ELSE Int64(10)]

(* ------------------------ per-record check ----------------------------- *)
\* variant of contentVerify: the range is compared before the lookup result is
\* tested (a missing key of a Go map reads as the zero Metadata, Length 0)
contentVerifyBoundsFirst(isFull, ci, bm) ==
    LET length == IF ci.packBlobID \in DOMAIN bm THEN bm[ci.packBlobID]
                  ELSE [top |-> 0, hi |-> 0, lo |-> 0]
    IN  IF isFull
        THEN IF ci.readable THEN Nil
             ELSE Wrap(NewError("GetContent failed"), "content %v is invalid")
        ELSE IF Int64Greater(Int64OfU32(AddU32(ci.packOffset, ci.packedLength)),
                             length)
             THEN NewError("content %v out of bounds of its pack blob %v")
             ELSE IF ci.packBlobID \notin DOMAIN bm
                  THEN NewError("content %v depends on missing blob %v")
                  ELSE Nil

\* variant of contentVerify: the full flag is not looked at
contentVerifyBoundsOnly(isFull, ci, bm) ==
    IF ci.packBlobID \notin DOMAIN bm
    THEN NewError("content %v depends on missing blob %v")
    ELSE IF Int64Greater(Int64OfU32(AddU32(ci.packOffset, ci.packedLength)),
                         bm[ci.packBlobID])
         THEN NewError("content %v out of bounds of its pack blob %v")
         ELSE Nil

\* variant of contentVerify: >= in place of > on line 113
contentVerifyInclusive(isFull, ci, bm) ==
    IF isFull
    THEN IF ci.readable THEN Nil
         ELSE Wrap(NewError("GetContent failed"), "content %v is invalid")
    ELSE IF ci.packBlobID \notin DOMAIN bm
         THEN NewError("content %v depends on missing blob %v")
         ELSE IF Int64GreaterOrEqual(
                     Int64OfU32(AddU32(ci.packOffset, ci.packedLength)),
                     bm[ci.packBlobID])
              THEN NewError("content %v out of bounds of its pack blob %v")
              ELSE Nil

\* lines 99-118
contentVerify(isFull, ci, bm) ==
    IF isFull
    THEN IF ci.readable THEN Nil
         ELSE Wrap(NewError("GetContent failed"), "content %v is invalid")
    ELSE IF ci.packBlobID \notin DOMAIN bm
         THEN NewError("content %v depends on missing blob %v")
         ELSE IF Int64Greater(Int64OfU32(AddU32(ci.packOffset, ci.packedLength)),
                              bm[ci.packBlobID])
              THEN NewError("content %v out of bounds of its pack blob %v")
              ELSE Nil

\* variant of runResult: the error counter is looked at before the
\* iteration's error
runResultCountsFirst(ierr, errors) ==
    IF errors # 0 THEN Errorf("encountered %v errors", errors)
    ELSE IF ierr # Nil THEN Wrap(ierr, "iterate contents")
    ELSE Nil

\* variant of runResult: a single failed record is tolerated
runResultTolerant(ierr, errors) ==
    IF ierr # Nil THEN Wrap(ierr, "iterate contents")
    ELSE IF errors <= 1 THEN Nil
    ELSE Errorf("encountered %v errors", errors)

\* value of run() once IterateContents has returned iterErr (lines 86-96)
runResult(ierr, errors) ==
    IF ierr # Nil THEN Wrap(ierr, "iterate contents")
    ELSE IF errors = 0 THEN Nil
    ELSE Errorf("encountered %v errors", errors)

(* ------------------------ guarded action: data ------------------------- *)
\* the wrappers of maybeRepositoryAction and the mode each one passes
Mode(mbc, dm) == [mustBeConnected |-> mbc, disableMaintenance |-> dm]

directRepositoryWriteAction == Mode(TRUE, TRUE)
directRepositoryReadAction  == Mode(TRUE, TRUE)
repositoryReaderAction      == Mode(TRUE, TRUE)
repositoryWriterAction      == Mode(TRUE, FALSE)

\* kinds of guarded call; "contentVerify" is directRepositoryReadAction(c.run),
\* "maybe" and "maybeDirect" are maybeRepositoryAction called with any mode,
\* the latter with its action wrapped in assertDirectRepository
GenericKinds ==
    {"directWrite", "directRead", "reader", "writer", "maybe", "maybeDirect"}

ModesOf(k) ==
    CASE k = "directWrite"   -> {directRepositoryWriteAction}
      [] k = "directRead"    -> {directRepositoryReadAction}
      [] k = "contentVerify" -> {directRepositoryReadAction}
      [] k = "reader"        -> {repositoryReaderAction}
      [] k = "writer"        -> {repositoryWriterAction}
      [] OTHER               -> {Mode(a, b) : a, b \in BOOLEAN}

\* the action is wrapped in assertDirectRepository
AssertsDirect(k) ==
    k \in {"directWrite", "directRead", "contentVerify", "maybeDirect"}

\* the action runs inside a write session
OpensSession(k) == k \in {"directWrite", "writer"}

\* repository handles; NoRep is the nil repo.Repository
NoRep == [present |-> FALSE, readOnly |-> FALSE, direct |-> FALSE]

Handles == [present : {TRUE}, readOnly : BOOLEAN, direct : BOOLEAN]

\* results (rep, err) of c.openRepository(ctx, required)
OpenOutcomes(required) ==
    {[rep |-> h, err |-> Nil] : h \in Handles}
    \cup {[rep |-> NoRep, err |-> NewError("open failed")]}
    \cup (IF required THEN {} ELSE {[rep |-> NoRep, err |-> Nil]})

\* variant of OpenAborts: every open error ends the call
OpenAbortsAlways(operr, m) == operr # Nil

\* variant of OpenAborts: the mode test is inverted
OpenAbortsInverted(operr, m) == operr # Nil /\ ~m.mustBeConnected

\* line 509: the call is abandoned after a failed open
OpenAborts(operr, m) == operr # Nil /\ m.mustBeConnected

\* variant of MaintenanceAttempted: disableMaintenance is not looked at
MaintenanceAttemptedAnyMode(r, m) == r.present

\* line 515: maybeRunMaintenance is called
MaintenanceAttempted(r, m) == r.present /\ ~m.disableMaintenance

\* variant of MaintenanceGate: the ReadOnly test of line 543 is lost
MaintenanceGateIgnoresReadOnly(enabled, r) == enabled /\ r.direct

\* lines 539-550: maybeRunMaintenance goes on to open its write session
MaintenanceGate(enabled, r) == enabled /\ ~r.readOnly /\ r.direct

\* lines 552-556: the session's purpose and the arguments of
\* snapshotmaintenance.Run; NoArgs while it has not been called
MaintenanceArgs ==
    [purpose |-> "maybeRunMaintenance", mode |-> "ModeAuto", force |-> FALSE,
     safety |-> "SafetyFull"]

NoArgs == [purpose |-> "", mode |-> "", force |-> FALSE, safety |-> ""]

\* errors snapshotmaintenance.Run may return
ProcedureOutcomes ==
    { Nil,
      NewError("NotOwnedError"),
      Wrap(NewError("NotOwnedError"), "maintenance"),
      NewError("maintenance failed") }

\* repo.DirectWriteSession / repo.WriteSession: the callback's error if it
\* failed, otherwise the result of the final flush
WriteSessionResult(cberr, flusherr) ==
    IF cberr # Nil THEN cberr ELSE Wrap(flusherr, "error flushing writer")

FlushOutcomes == {Nil, NewError("flush failed")}

\* variant of maybeRunMaintenanceResult: no errors.As test
maybeRunMaintenanceResultNoAs(serr) == Wrap(serr, "error running maintenance")

\* lines 559-566: what maybeRunMaintenance returns for the session's error
maybeRunMaintenanceResult(serr) ==
    IF IsNotOwnedError(serr) THEN Nil
    ELSE Wrap(serr, "error running maintenance")

\* variant of CloseAttempted: mustBeConnected is not looked at
CloseAttemptedAnyMode(r, m) == r.present

\* line 521: the repository is closed
CloseAttempted(r, m) == r.present /\ m.mustBeConnected

\* variant of guardedResult: the maintenance error is returned when the action
\* succeeded
guardedResultWithMaintenance(aerr, maerr, clerr) ==
    IF clerr # Nil THEN Wrap(clerr, "unable to close repository")
    ELSE IF aerr # Nil THEN aerr ELSE maerr

\* lines 513-527: value returned by the closure given to withProfiling
guardedResult(aerr, maerr, clerr) ==
    IF clerr # Nil THEN Wrap(clerr, "unable to close repository") ELSE aerr

(* ----------------------------- state ----------------------------------- *)
VARIABLES
    kind, mode, enableAutomaticMaintenance,     \* the call and App flags
    full, parallel, contents, blobStore,        \* verify flags, repository
    pc, rep, err, merr, cerr, result, exitStatus,
    procErr, sessErr, procArgs, sessions, trace,
    vpc, listed, blobMap, pending, wpc, wrec, werr,
    totalCount, successCount, errorCount, iterErr, runErr, visits,
    cancelled                                   \* ctx of run is done

callVars   == <<kind, mode, enableAutomaticMaintenance, full, parallel,
                contents, blobStore>>
guardVars  == <<pc, rep, err, merr, cerr, result, exitStatus>>
maintVars  == <<procErr, sessErr, procArgs>>
workerVars == <<pending, wpc, wrec, werr>>
countVars  == <<totalCount, successCount, errorCount, visits>>
runVars    == <<vpc, listed, blobMap, iterErr, runErr>>
vars == <<callVars, guardVars, maintVars, sessions, trace,
          workerVars, countVars, runVars, cancelled>>

Workers == 1..MaxParallel

NoInfo == Info("", "", U32(0, 0), U32(0, 0), TRUE)

Count(ev) == Cardinality({i \in DOMAIN trace : trace[i] = ev})

(* ----------------------------- Init ------------------------------------ *)
ContentSets == {S \in SUBSET CandidateContents : Cardinality(S) <= MaxRecords}

Init ==
    /\ kind \in GenericKinds \cup {"contentVerify"}
    /\ mode \in ModesOf(kind)
    \* the flag is read only by maybeRunMaintenance (line 539): its default
    \* stands where that is never called
    /\ enableAutomaticMaintenance \in
          (IF mode.disableMaintenance THEN {TRUE} ELSE BOOLEAN)
    /\ IF kind = "contentVerify"
       THEN /\ full \in BOOLEAN
            /\ parallel \in 1..MaxParallel
            /\ contents \in ContentSets
            \* the blobs are read only by readBlobMap, which full mode skips
            \* (line 55): one store stands for all of them there
            /\ blobStore \in (IF full THEN {FullBlobStore} ELSE BlobStores)
       ELSE /\ full = FALSE
            /\ parallel = 1
            /\ contents = {}
            /\ blobStore = EmptyBlobs
    /\ pc = "start"
    /\ rep = NoRep
    /\ err = Nil /\ merr = Nil /\ cerr = Nil /\ result = Nil
    /\ exitStatus = -1
    /\ procErr = Nil /\ sessErr = Nil /\ procArgs = NoArgs
    /\ sessions = 0
    /\ trace = <<>>
    /\ vpc = "idle"
    /\ listed = EmptyBlobs
    /\ blobMap = EmptyBlobs
    /\ pending = {}
    /\ wpc = [w \in Workers |-> "idle"]
    /\ wrec = [w \in Workers |-> NoInfo]
    /\ werr = [w \in Workers |-> Nil]
    /\ totalCount = 0 /\ successCount = 0 /\ errorCount = 0
    /\ iterErr = Nil
    /\ runErr = Nil
    /\ visits = [ci \in contents |-> [outcome |-> 0, total |-> 0]]
    /\ cancelled = FALSE

(* ------------------- maybeRepositoryAction (490-536) ------------------- *)
\* lines 498-506: the metrics listener; only initPrometheus can fail the call
StartMetrics ==
    /\ pc = "start"
    /\ \E addrSet \in BOOLEAN, initOK \in BOOLEAN :
         IF addrSet /\ ~initOK
         THEN /\ result' = Wrap(NewError("initPrometheus failed"),
                                "unable to initialize prometheus.")
              /\ pc' = "exit"
         ELSE /\ result' = result
              /\ pc' = "open"
    /\ UNCHANGED <<callVars, cancelled, rep, err, merr, cerr, exitStatus, maintVars,
                   sessions, trace, workerVars, countVars, runVars>>

\* lines 508-511; err is the variable that line 513 assigns again
OpenRepository ==
    /\ pc = "open"
    /\ \E o \in OpenOutcomes(mode.mustBeConnected) :
         \* ReadOnly is read only by maybeRunMaintenance (line 543)
         /\ o.rep.readOnly => ~mode.disableMaintenance
         /\ err' = o.err
         /\ trace' = Append(trace, IF o.err # Nil THEN "openerr"
                                   ELSE IF o.rep.present THEN "open" ELSE "noopen")
         /\ IF OpenAborts(o.err, mode)
            THEN /\ result' = Wrap(o.err, "open repository")
                 /\ rep' = rep
                 /\ pc' = "exit"
            ELSE /\ result' = result
                 /\ rep' = o.rep
                 /\ pc' = "act"
    /\ UNCHANGED <<callVars, cancelled, merr, cerr, exitStatus, maintVars, sessions,
                   workerVars, countVars, runVars>>

\* line 513, entry: act(ctx, rep) is called; assertDirectRepository (421-436)
\* rejects a handle that is not direct, the write wrappers open their session,
\* contentVerify enters run() (lines 52-62)
ActBegin ==
    /\ pc = "act"
    /\ IF AssertsDirect(kind) /\ rep.present /\ ~rep.direct
       THEN /\ err' = NewError("operation supported only on direct repository")
            /\ pc' = "maint"
            /\ trace' = trace \o <<"act", "actret">>
            /\ UNCHANGED <<sessions, vpc, pending>>
       ELSE /\ err' = err
            /\ pc' = "acting"
            /\ sessions' = IF OpensSession(kind) THEN sessions + 1 ELSE sessions
            /\ trace' = trace \o (IF OpensSession(kind)
                                  THEN <<"act", "session">> ELSE <<"act">>)
            /\ IF kind = "contentVerify"
               THEN /\ vpc' = IF full THEN "iterate" ELSE "list"
                    /\ pending' = contents
               ELSE UNCHANGED <<vpc, pending>>
    /\ UNCHANGED <<callVars, cancelled, rep, merr, cerr, result, exitStatus, maintVars,
                   wpc, wrec, werr, countVars, listed, blobMap, iterErr, runErr>>

\* variant of ActReturn: the action's write session is left open
ActReturnKeepsSession ==
    /\ pc = "acting"
    /\ kind # "contentVerify"
    /\ \E aerr \in {Nil, NewError("action failed")}, ferr \in FlushOutcomes :
         err' = IF OpensSession(kind) THEN WriteSessionResult(aerr, ferr) ELSE aerr
    /\ trace' = Append(trace, "actret")
    /\ pc' = "maint"
    /\ UNCHANGED <<callVars, cancelled, rep, merr, cerr, result, exitStatus,
                   maintVars, sessions, workerVars, countVars, runVars>>

\* line 513, return of an action other than content verification
ActReturn ==
    /\ pc = "acting"
    /\ kind # "contentVerify"
    /\ \E aerr \in {Nil, NewError("action failed")}, ferr \in FlushOutcomes :
         err' = IF OpensSession(kind) THEN WriteSessionResult(aerr, ferr) ELSE aerr
    /\ sessions' = IF OpensSession(kind) THEN sessions - 1 ELSE sessions
    /\ trace' = trace \o (IF OpensSession(kind)
                          THEN <<"sessionend", "actret">> ELSE <<"actret">>)
    /\ pc' = "maint"
    /\ UNCHANGED <<callVars, cancelled, rep, merr, cerr, result, exitStatus, maintVars,
                   workerVars, countVars, runVars>>

\* line 513, return of commandContentVerify.run
VerifyReturn ==
    /\ pc = "acting"
    /\ kind = "contentVerify"
    /\ vpc \in {"done", "listfailed"}
    /\ err' = runErr
    /\ trace' = Append(trace, "actret")
    /\ pc' = "maint"
    /\ UNCHANGED <<callVars, cancelled, rep, merr, cerr, result, exitStatus, maintVars,
                   sessions, workerVars, countVars, runVars>>

\* line 515 false: maybeRunMaintenance is not called
MaintenanceSkipped ==
    /\ pc = "maint"
    /\ ~MaintenanceAttempted(rep, mode)
    /\ pc' = "close"
    /\ UNCHANGED <<callVars, cancelled, rep, err, merr, cerr, result, exitStatus, maintVars,
                   sessions, trace, workerVars, countVars, runVars>>

\* lines 516, 539-550: maybeRunMaintenance returns nil at one of its gates
MaintenanceNoop ==
    /\ pc = "maint"
    /\ MaintenanceAttempted(rep, mode)
    /\ ~MaintenanceGate(enableAutomaticMaintenance, rep)
    /\ merr' = Nil
    /\ trace' = trace \o <<"maint", "maintret">>
    /\ pc' = "close"
    /\ UNCHANGED <<callVars, cancelled, rep, err, cerr, result, exitStatus, maintVars,
                   sessions, workerVars, countVars, runVars>>

\* lines 516, 552-556: the maintenance write session is opened
MaintenanceBegin ==
    /\ pc = "maint"
    /\ MaintenanceAttempted(rep, mode)
    /\ MaintenanceGate(enableAutomaticMaintenance, rep)
    /\ sessions' = sessions + 1
    /\ trace' = trace \o <<"maint", "session", "procedure">>
    /\ procArgs' = MaintenanceArgs
    /\ pc' = "maintaining"
    /\ UNCHANGED <<callVars, cancelled, rep, err, merr, cerr, result, exitStatus,
                   procErr, sessErr, workerVars, countVars, runVars>>

\* lines 556-566: the procedure and its session end, merr is set (line 516)
MaintenanceEnd ==
    /\ pc = "maintaining"
    /\ \E perr \in ProcedureOutcomes, ferr \in FlushOutcomes :
         /\ procErr' = perr
         /\ sessErr' = WriteSessionResult(perr, ferr)
         /\ merr' = maybeRunMaintenanceResult(WriteSessionResult(perr, ferr))
    /\ sessions' = sessions - 1
    /\ trace' = trace \o <<"sessionend", "maintret">>
    /\ pc' = "close"
    /\ UNCHANGED <<callVars, cancelled, rep, err, cerr, result, exitStatus, procArgs,
                   workerVars, countVars, runVars>>

\* lines 521-527 with rep.Close called
CloseRepository ==
    /\ pc = "close"
    /\ CloseAttempted(rep, mode)
    /\ \E c \in {Nil, NewError("close failed")} :
         /\ cerr' = c
         /\ result' = guardedResult(err, merr, c)
    /\ trace' = Append(trace, "close")
    /\ pc' = "exit"
    /\ UNCHANGED <<callVars, cancelled, rep, err, merr, exitStatus, maintVars, sessions,
                   workerVars, countVars, runVars>>

\* lines 521-527 without a close
CloseSkipped ==
    /\ pc = "close"
    /\ ~CloseAttempted(rep, mode)
    /\ result' = guardedResult(err, merr, Nil)
    /\ pc' = "exit"
    /\ UNCHANGED <<callVars, cancelled, rep, err, merr, cerr, exitStatus, maintVars,
                   sessions, trace, workerVars, countVars, runVars>>

\* lines 528-534: os.Exit(1) on an error, return nil otherwise
Exit ==
    /\ pc = "exit"
    /\ exitStatus' = IF result # Nil THEN 1 ELSE 0
    /\ pc' = "done"
    /\ UNCHANGED <<callVars, cancelled, rep, err, merr, cerr, result, maintVars, sessions,
                   trace, workerVars, countVars, runVars>>

(* ------------------ commandContentVerify.run (52-97) ------------------- *)
\* atomic.AddInt32(&x, 1)
AddInt32(x) == IF x = 2147483647 THEN (-2147483647) - 1 ELSE x + 1

\* variant of errorCountAfter: the else of line 76 is lost
errorCountAfterAlways(verr, e) == AddInt32(e)

\* lines 73-78: the counter the callback bumps for the check's result
errorCountAfter(verr, e) == IF verr # Nil THEN AddInt32(e) ELSE e

\* variant of successCountAfter: the increment of line 77 is lost
successCountAfterNever(verr, s) == s

successCountAfter(verr, s) == IF verr # Nil THEN s ELSE AddInt32(s)

\* line 80
totalCountAfter(t) == AddInt32(t)

\* variant of callbackReturn: the check's error is handed to the iterator
callbackReturnError(verr) == verr

\* line 84: what the callback returns to the iterator
callbackReturn(verr) == Nil

\* readBlobMap, lines 37-42: ListBlobs hands over one more blob
ListBlob ==
    /\ vpc = "list"
    /\ \E b \in DOMAIN blobStore \ DOMAIN listed :
         listed' = (b :> blobStore[b]) @@ listed
    /\ UNCHANGED <<callVars, cancelled, guardVars, maintVars, sessions, trace, workerVars,
                   countVars, vpc, blobMap, iterErr, runErr>>

\* readBlobMap, lines 43-45 and run, lines 57-59: ListBlobs fails
ListFail ==
    /\ vpc = "list"
    /\ runErr' = Wrap(NewError("ListBlobs failed"), "unable to list blobs")
    /\ listed' = EmptyBlobs
    /\ vpc' = "listfailed"
    /\ UNCHANGED <<callVars, cancelled, guardVars, maintVars, sessions, trace, workerVars,
                   countVars, blobMap, iterErr>>

\* variant of ListDone: the map is handed over before ListBlobs has returned
ListDoneEarly ==
    /\ vpc = "list"
    /\ blobMap' = listed
    /\ vpc' = "iterate"
    /\ UNCHANGED <<callVars, cancelled, guardVars, maintVars, sessions, trace, workerVars,
                   countVars, listed, iterErr, runErr>>

\* readBlobMap, line 49 and run, line 61: the listing is complete
ListDone ==
    /\ vpc = "list"
    /\ DOMAIN listed = DOMAIN blobStore
    /\ blobMap' = listed
    /\ vpc' = "iterate"
    /\ UNCHANGED <<callVars, cancelled, guardVars, maintVars, sessions, trace, workerVars,
                   countVars, listed, iterErr, runErr>>

\* lines 72-73: a worker of IterateContents takes a record and checks it
CallbackVerify(w) ==
    /\ vpc = "iterate"
    /\ iterErr = Nil
    /\ w <= parallel
    /\ wpc[w] = "idle"
    /\ \E ci \in pending :
         /\ pending' = pending \ {ci}
         /\ wrec' = [wrec EXCEPT ![w] = ci]
         /\ werr' = [werr EXCEPT ![w] = contentVerify(full, ci, blobMap)]
    /\ wpc' = [wpc EXCEPT ![w] = "count"]
    /\ UNCHANGED <<callVars, cancelled, guardVars, maintVars, sessions, trace,
                   countVars, runVars>>

\* lines 73-78: the atomic increment of errorCount or successCount
CallbackCount(w) ==
    /\ wpc[w] = "count"
    /\ errorCount' = errorCountAfter(werr[w], errorCount)
    /\ successCount' = successCountAfter(werr[w], successCount)
    /\ visits' = [visits EXCEPT ![wrec[w]].outcome =
                     @ + (errorCount' - errorCount) + (successCount' - successCount)]
    /\ wpc' = [wpc EXCEPT ![w] = "total"]
    /\ UNCHANGED <<callVars, cancelled, guardVars, maintVars, sessions, trace,
                   pending, wrec, werr, totalCount, runVars>>

\* lines 80-84: the atomic increment of totalCount, the callback returns
CallbackTotal(w) ==
    /\ wpc[w] = "total"
    /\ totalCount' = totalCountAfter(totalCount)
    /\ visits' = [visits EXCEPT ![wrec[w]].total = @ + (totalCount' - totalCount)]
    /\ iterErr' = IF iterErr = Nil THEN callbackReturn(werr[w]) ELSE iterErr
    /\ wpc' = [wpc EXCEPT ![w] = "idle"]
    /\ wrec' = [wrec EXCEPT ![w] = NoInfo]
    /\ werr' = [werr EXCEPT ![w] = Nil]
    /\ UNCHANGED <<callVars, cancelled, guardVars, maintVars, sessions, trace,
                   pending, successCount, errorCount, vpc, listed, blobMap, runErr>>

\* ctx.Err() of a cancelled context
Canceled == NewError("context canceled")

\* lines 100-103 when GetContent fails because ctx is done
contentVerifyCancelled(isFull, ci, bm) ==
    IF isFull THEN Wrap(Canceled, "content %v is invalid")
    ELSE contentVerify(isFull, ci, bm)

\* the ctx handed to run (line 52) is cancelled by its owner while run is busy
Cancel ==
    /\ vpc \in {"list", "iterate"}
    /\ ~cancelled
    /\ cancelled' = TRUE
    /\ UNCHANGED <<callVars, guardVars, maintVars, sessions, trace, workerVars,
                   countVars, runVars>>

\* lines 72-73 in full mode with ctx done: the fetch of the record in hand
\* fails with the context's error
CallbackVerifyCancelled(w) ==
    /\ vpc = "iterate"
    /\ iterErr = Nil
    /\ cancelled /\ full
    /\ w <= parallel
    /\ wpc[w] = "idle"
    /\ \E ci \in pending :
         /\ pending' = pending \ {ci}
         /\ wrec' = [wrec EXCEPT ![w] = ci]
         /\ werr' = [werr EXCEPT ![w] = contentVerifyCancelled(full, ci, blobMap)]
    /\ wpc' = [wpc EXCEPT ![w] = "count"]
    /\ UNCHANGED <<callVars, cancelled, guardVars, maintVars, sessions, trace,
                   countVars, runVars>>

\* IterateContents notices that ctx is done and fails with its error
IterateCancelled ==
    /\ vpc = "iterate"
    /\ cancelled
    /\ iterErr = Nil
    /\ iterErr' = Canceled
    /\ UNCHANGED <<callVars, cancelled, guardVars, maintVars, sessions, trace,
                   workerVars, countVars, vpc, listed, blobMap, runErr>>

\* IterateContents itself fails (the index cannot be read)
IterateFail ==
    /\ vpc = "iterate"
    /\ iterErr = Nil
    /\ iterErr' = NewError("index read failed")
    /\ UNCHANGED <<callVars, cancelled, guardVars, maintVars, sessions, trace, workerVars,
                   countVars, vpc, listed, blobMap, runErr>>

\* lines 85-96: IterateContents returns once its workers are done; with ctx
\* done it returns an error (the cancellation reaches the iterator)
IterateReturn ==
    /\ vpc = "iterate"
    /\ \A w \in Workers : wpc[w] = "idle"
    /\ pending = {} \/ iterErr # Nil
    /\ cancelled => iterErr # Nil
    /\ runErr' = runResult(iterErr, errorCount)
    /\ vpc' = "done"
    /\ UNCHANGED <<callVars, cancelled, guardVars, maintVars, sessions, trace, workerVars,
                   countVars, listed, blobMap, iterErr>>

(* --------------------------- specification ----------------------------- *)
Next ==
    \/ StartMetrics
    \/ OpenRepository
    \/ ActBegin
    \/ ActReturn
    \/ VerifyReturn
    \/ MaintenanceSkipped
    \/ MaintenanceNoop
    \/ MaintenanceBegin
    \/ MaintenanceEnd
    \/ CloseRepository
    \/ CloseSkipped
    \/ Exit
    \/ ListBlob
    \/ ListFail
    \/ ListDone
    \/ \E w \in Workers : CallbackVerify(w)
    \/ \E w \in Workers : CallbackCount(w)
    \/ \E w \in Workers : CallbackTotal(w)
    \/ IterateFail
    \/ IterateReturn
    \/ Cancel
    \/ \E w \in Workers : CallbackVerifyCancelled(w)
    \/ IterateCancelled

Spec == Init /\ [][Next]_vars

(* ------------------------------ claims --------------------------------- *)
MissingBlobError == NewError("content %v depends on missing blob %v")

OutOfBoundsError == NewError("content %v out of bounds of its pack blob %v")

\* worker w holds the result of the check of wrec[w]
Checked(w) == wpc[w] \in {"count", "total"}

\* the guarded call went through act and the close decision
Finished == pc = "done" /\ Count("actret") > 0

\* IterateContents returned without error
Completed == vpc = "done" /\ iterErr = Nil

\* C1: with must_be_connected and an opened repository, a failed action's
\* error is the error of the call even when close fails too; the close error
\* is the call's error only when the action succeeded.
C1_ActionErrorTakesPrecedence ==
    (Finished /\ mode.mustBeConnected /\ rep.present) =>
        /\ err # Nil => result = err
        /\ (err = Nil /\ cerr # Nil) =>
               result = Wrap(cerr, "unable to close repository")

\* C2: with must_be_connected, after a failed open the action is never
\* invoked, neither maintenance nor close is attempted, and the call fails
\* with the open error as cause and exit status 1.
C2_OpenFailureAborts ==
    (mode.mustBeConnected /\ Count("openerr") > 0) =>
        /\ Count("act") = 0 /\ Count("maint") = 0 /\ Count("close") = 0
        /\ pc \in {"exit", "done"}
        /\ result = Wrap(NewError("open failed"), "open repository")
        /\ Cause(result) = NewError("open failed")
        /\ pc = "done" => exitStatus = 1

C2_Witness ==
    /\ pc = "done" /\ mode.mustBeConnected /\ Count("openerr") > 0
    /\ exitStatus = 1 /\ trace = <<"openerr">>

\* C3: the result of a guarded call is determined by the action's error and
\* the close error alone, whatever automatic maintenance did (not run, nil,
\* NotOwnedError, any other error).
C3_ResultIgnoresMaintenance ==
    Finished =>
        result = (IF cerr # Nil THEN Wrap(cerr, "unable to close repository")
                  ELSE err)

C3_Witness ==
    /\ Finished /\ Count("procedure") > 0
    /\ merr # Nil /\ err = Nil /\ cerr = Nil /\ result = Nil /\ exitStatus = 0

\* C4: maybeRunMaintenance returns nil when the procedure fails with
\* NotOwnedError, nil when procedure and session succeed, and a wrapped
\* error for every other failure of the procedure or of its write session.
C4_MaintenanceResult ==
    (Count("procedure") > 0 /\ pc \in {"close", "exit", "done"}) =>
        /\ IsNotOwnedError(procErr) => merr = Nil
        /\ (procErr = Nil /\ sessErr = Nil) => merr = Nil
        /\ ((procErr # Nil /\ ~IsNotOwnedError(procErr))
              \/ (procErr = Nil /\ sessErr # Nil)) =>
              /\ merr # Nil
              /\ Head(merr).msg = "error running maintenance"
              /\ Tail(merr) = sessErr

C4_Witness ==
    /\ Count("procedure") > 0 /\ pc = "close"
    /\ procErr = Wrap(NewError("NotOwnedError"), "maintenance")
    /\ merr = Nil

\* C5: in bounds mode a record whose pack blob is not in the blob map fails
\* with "depends on missing blob", never "out of bounds", for any range.
C5_MissingBlob ==
    \A w \in Workers :
        (Checked(w) /\ ~full /\ wrec[w].packBlobID \notin DOMAIN blobMap) =>
            /\ werr[w] = MissingBlobError
            /\ werr[w] # OutOfBoundsError

C5_Witness ==
    \E w \in Workers :
        /\ Checked(w) /\ ~full
        /\ wrec[w].packBlobID \notin DOMAIN blobMap
        /\ wrec[w].packOffset = MaxU32
        /\ werr[w] = MissingBlobError

\* C6: in bounds mode a record whose pack blob is in the blob map and whose
\* offset + length, as an unbounded integer, exceeds the blob's length fails
\* with "out of bounds".
C6_OutOfBoundsOnTrueSum ==
    \A w \in Workers :
        (/\ Checked(w) /\ ~full
         /\ wrec[w].packBlobID \in DOMAIN blobMap
         /\ Int64Greater(TrueSum(wrec[w].packOffset, wrec[w].packedLength),
                         blobMap[wrec[w].packBlobID])) =>
            werr[w] = OutOfBoundsError

\* C7: in bounds mode a record whose pack blob is in the blob map and whose
\* offset + length is at most the blob's length (equality included) passes.
C7_InBoundsSucceeds ==
    \A w \in Workers :
        (/\ Checked(w) /\ ~full
         /\ wrec[w].packBlobID \in DOMAIN blobMap
         /\ ~Int64Greater(TrueSum(wrec[w].packOffset, wrec[w].packedLength),
                          blobMap[wrec[w].packBlobID])) =>
            werr[w] = Nil

C7_Witness ==
    \E w \in Workers :
        /\ Checked(w) /\ ~full
        /\ wrec[w].contentID = "C4"
        /\ wrec[w].packBlobID \in DOMAIN blobMap
        /\ blobMap[wrec[w].packBlobID] =
              TrueSum(wrec[w].packOffset, wrec[w].packedLength)
        /\ werr[w] = Nil

\* C8: when the iteration returned without error, total = success + error and
\* every record bumped total once and one outcome counter once.
C8_TotalIsSum ==
    Completed =>
        /\ totalCount = successCount + errorCount
        /\ \A ci \in contents : visits[ci] = [outcome |-> 1, total |-> 1]

C8_Witness ==
    /\ Completed /\ parallel = 2
    /\ totalCount = 3 /\ successCount > 0 /\ errorCount > 0

\* C9: the counts of a completed run are determined by the records and the
\* blob store: total is the number of records, error the number of records
\* failing the per-record check, and a failing record never ends the
\* iteration.
C9_CountsDetermined ==
    /\ Completed =>
         /\ totalCount = Cardinality(contents)
         /\ errorCount = Cardinality({ci \in contents :
                             contentVerify(full, ci, blobStore) # Nil})
         /\ successCount = Cardinality({ci \in contents :
                             contentVerify(full, ci, blobStore) = Nil})
    /\ iterErr \in {Nil, NewError("index read failed"), Canceled}

C9_Witness ==
    /\ Completed /\ ~full
    /\ blobStore = [b \in {"B1"} |-> Int64(1000)]
    /\ {ci.contentID : ci \in contents} = {"C1", "C2", "C3"}
    /\ totalCount = 3 /\ successCount = 1 /\ errorCount = 2

\* C10: a run whose iteration completed returns nil exactly when the error
\* counter is 0, and otherwise the error carrying the error count.
C10_AggregateResult ==
    Completed =>
        /\ runErr = Nil <=> errorCount = 0
        /\ errorCount > 0 =>
              runErr = Errorf("encountered %v errors", errorCount)

C10_Witness ==
    /\ Completed /\ errorCount = 1
    /\ runErr = Errorf("encountered %v errors", 1)

\* C11: in full mode the blobs are never listed and the blob map stays empty;
\* a record's check fails exactly when its content cannot be fetched, also
\* when its blob exists and its range is within the blob.
C11_FullModeFetchOnly ==
    full =>
        /\ vpc # "list" /\ listed = EmptyBlobs /\ blobMap = EmptyBlobs
        /\ \A w \in Workers :
              Checked(w) =>
                 /\ ~wrec[w].readable => werr[w] # Nil
                 /\ werr[w] # Nil => (~wrec[w].readable \/ cancelled)

C11_Witness ==
    \E w \in Workers :
        /\ full /\ wpc[w] = "total" /\ errorCount > 0
        /\ ~wrec[w].readable
        /\ wrec[w].packBlobID \in DOMAIN blobStore
        /\ ~Int64Greater(TrueSum(wrec[w].packOffset, wrec[w].packedLength),
                         blobStore[wrec[w].packBlobID])
        /\ werr[w] # Nil

\* C12: once the action has returned and the maintenance decision is taken,
\* maintenance was attempted (once) exactly when a handle exists and
\* disable_maintenance is false, whether the action failed or not; the
\* direct write, direct read and reader wrappers never attempt it.
C12_MaintenanceAttemptedIff ==
    /\ pc \in {"close", "exit", "done"} =>
          Count("maint") =
             (IF rep.present /\ ~mode.disableMaintenance THEN 1 ELSE 0)
    /\ pc \notin {"close", "exit", "done", "maintaining"} => Count("maint") = 0
    /\ (mode.disableMaintenance
          \/ kind \in {"directWrite", "directRead", "reader", "contentVerify"}) =>
          Count("maint") = 0 /\ Count("procedure") = 0

C12_Witness ==
    /\ pc = "done" /\ kind = "writer" /\ err # Nil
    /\ Count("maint") = 1 /\ Count("actret") = 1

\* C13: when IterateContents fails, run returns "iterate contents" wrapping
\* the cause: never nil and never "encountered N errors", whatever the
\* counters hold.
C13_IterationErrorWins ==
    (vpc = "done" /\ iterErr # Nil) =>
        /\ runErr # Nil
        /\ Head(runErr).msg = "iterate contents"
        /\ Tail(runErr) = iterErr
        /\ \A n \in 0..Cardinality(contents) :
              runErr # Errorf("encountered %v errors", n)

C13_Witness ==
    /\ vpc = "done" /\ iterErr # Nil /\ errorCount > 0 /\ successCount > 0
    /\ runErr = Wrap(iterErr, "iterate contents")

\* a per-record check has started or has been counted
ChecksStarted ==
    \/ \E w \in Workers : wpc[w] # "idle"
    \/ totalCount # 0 \/ successCount # 0 \/ errorCount # 0

\* C14: in bounds mode no record is checked before the blob listing is
\* complete, the blob map does not change once the iteration has begun, and
\* a failed listing ends the run with the listing error, no record checked
\* and all counters 0.
C14_ListingPrecedesChecks ==
    /\ [](~full =>
            /\ ChecksStarted => (vpc \in {"iterate", "done"} /\ blobMap = blobStore)
            /\ vpc = "listfailed" =>
                  /\ ~ChecksStarted
                  /\ pending = contents
                  /\ runErr = Wrap(NewError("ListBlobs failed"),
                                   "unable to list blobs"))
    /\ [][(vpc \in {"iterate", "done"}) => (blobMap' = blobMap)]_vars

C14_Witness ==
    /\ ~full /\ vpc = "listfailed" /\ pc = "done"
    /\ contents # {} /\ listed = EmptyBlobs /\ blobStore # EmptyBlobs
    /\ totalCount = 0 /\ err = runErr /\ exitStatus = 1

\* C15: with must_be_connected false, after a failed open the action is
\* invoked once with no handle, neither maintenance nor close is attempted,
\* and the call's result is the action's result.
C15_OptionalOpenFailure ==
    (~mode.mustBeConnected /\ Count("openerr") > 0) =>
        /\ ~rep.present
        /\ Count("maint") = 0 /\ Count("close") = 0
        /\ pc \in {"maint", "close", "exit", "done"} =>
              Count("act") = 1 /\ Count("actret") = 1
        /\ pc \in {"exit", "done"} => result = err
        /\ pc = "done" => exitStatus = (IF err # Nil THEN 1 ELSE 0)

C15_Witness ==
    /\ ~mode.mustBeConnected /\ Count("openerr") > 0
    /\ kind = "maybeDirect" /\ pc = "done"
    /\ trace = <<"openerr", "act", "actret">>
    /\ err = Nil /\ result = Nil /\ exitStatus = 0

\* write sessions opened after maybeRunMaintenance was entered
MaintenanceSessions ==
    Cardinality({i \in DOMAIN trace :
                    /\ trace[i] = "session"
                    /\ \E j \in 1..(i - 1) : trace[j] = "maint"})

\* C16: maybeRunMaintenance returns nil without a write session and without
\* the procedure when automatic maintenance is disabled, the handle is
\* read-only or the handle is not direct; otherwise it opens one write
\* session and runs the procedure once with ModeAuto, force false, SafetyFull.
C16_MaintenanceGate ==
    (Count("maint") = 1 /\ pc \in {"maintaining", "close", "exit", "done"}) =>
        IF ~enableAutomaticMaintenance \/ rep.readOnly \/ ~rep.direct
        THEN /\ merr = Nil
             /\ MaintenanceSessions = 0 /\ Count("procedure") = 0
             /\ procArgs = NoArgs
             /\ pc # "maintaining"
        ELSE /\ MaintenanceSessions = 1 /\ Count("procedure") = 1
             /\ procArgs.mode = "ModeAuto" /\ ~procArgs.force
             /\ procArgs.safety = "SafetyFull"

C16_Witness ==
    /\ pc = "done" /\ Count("maint") = 1
    /\ enableAutomaticMaintenance /\ rep.readOnly /\ rep.direct
    /\ Count("procedure") = 0 /\ merr = Nil

Before(a, b) ==
    \A i, j \in DOMAIN trace : (trace[i] = a /\ trace[j] = b) => i < j

\* C18: the calls occur in the order open, action, maintenance, close; close
\* is called once exactly when a handle exists and must_be_connected is
\* true, after the action has returned and any maintenance has finished, on
\* every path; a handle opened with must_be_connected false is not closed.
C18_CallOrder ==
    /\ trace # <<>> => trace[1] \in {"open", "openerr", "noopen"}
    /\ Before("act", "actret") /\ Before("actret", "maint")
    /\ Before("maint", "maintret") /\ Before("maintret", "close")
    /\ Before("actret", "close")
    /\ pc \in {"exit", "done"} =>
          Count("close") =
             (IF rep.present /\ mode.mustBeConnected THEN 1 ELSE 0)
    /\ pc \notin {"exit", "done"} => Count("close") = 0
    /\ Count("close") = 1 =>
          /\ trace[Len(trace)] = "close"
          /\ Count("act") = 1 /\ Count("actret") = 1
          /\ Count("maint") = Count("maintret")
          /\ sessions = 0
    /\ ~mode.mustBeConnected => Count("close") = 0

C18_Witness ==
    /\ pc = "done" /\ err # Nil /\ merr # Nil
    /\ trace = <<"open", "act", "session", "sessionend", "actret", "maint",
                 "session", "procedure", "sessionend", "maintret", "close">>

\* C19: in repositoryWriterAction at most one write session is open at any
\* time: the action's session has ended before the maintenance session is
\* opened, and the maintenance session has ended before the close.
C19_NoNestedSessions ==
    kind = "writer" =>
        /\ sessions \in {0, 1}
        /\ sessions = Count("session") - Count("sessionend")
        /\ pc = "acting" => (sessions = 1 /\ Count("session") = 1)
        /\ pc = "maintaining" =>
              (sessions = 1 /\ Count("session") = 2 /\ Count("sessionend") = 1)
        /\ pc \in {"maint", "close", "exit", "done"} => sessions = 0
        /\ Before("sessionend", "close")

C19_Witness ==
    /\ kind = "writer" /\ pc = "maintaining"
    /\ sessions = 1 /\ Count("sessionend") = 1
    /\ trace = <<"open", "act", "session", "sessionend", "actret", "maint",
                 "session", "procedure">>

\* callbacks that have been entered and have not returned
InProgress == Cardinality({w \in Workers : wpc[w] # "idle"})

\* C20: at every state of a run total <= success + error, the difference is
\* at most the number of callbacks in progress, and no counter decreases.
C20_CounterBounds ==
    /\ [](/\ totalCount <= successCount + errorCount
          /\ successCount + errorCount - totalCount <= InProgress)
    /\ [][/\ totalCount' >= totalCount
          /\ successCount' >= successCount
          /\ errorCount' >= errorCount]_vars

C20_Witness ==
    /\ vpc = "iterate" /\ InProgress = 2
    /\ successCount = 1 /\ errorCount = 1 /\ totalCount = 0

====
